---- MODULE Spec2Model ----
(***************************************************************************)
(* Submission lifecycle of mini-judge: the /judge handler                  *)
(* (app/api/v1/endpoints/judge.py), the worker loop                        *)
(* (app/workers/judge_worker.py), the supervisor's recovery and monitor    *)
(* loops (app/workers/manager.py) and the verdict aggregation of the judge *)
(* pipeline (app/services/judge.py), over the Redis keys they share.       *)
(***************************************************************************)
EXTENDS Integers, Sequences, FiniteSets, TLC

\* ---------------------------------------------------------------- bounds
NumTasks == 1
NumWorkers == 2
MaxFaults == 1
MaxRequeues == 1
MaxCases == 4
ShortOutput == 1
LongOutput == 300
MaxRunTime == 3
MaxTimeLimit == 2
MaxDescendants == 1
MaxPushes == 5
MaxGather == 3
MaxPids == 3

Tasks == 1..NumTasks
Workers == 1..NumWorkers
NoTask == 0
Recovery == 0

\* ------------------------------------------------------------- variables
VARIABLES
    \* broker keys
    submissions, \* list  <prefix>:queue:submissions (payloads, by task id)
    tstatus,     \* hash  <prefix>task:<id>, field status ("absent" = no key)
    tdata,       \* hash  <prefix>task:<id>, field data present
    results,     \* lists <prefix>:queue:results:<id>
    submitted,   \* counter submitted_count
    fetched,     \* counter fetched_count
    processed,   \* counter processed_count
    \* create_judge_task, one call per task id
    hpc, hgot, hret,
    \* JudgeWorker processes
    wpc, wcur, wpushes,
    \* recover_lost_tasks (one supervisor thread)
    rpc, rkeys, rqlen, rcur, rdata,
    \* environment
    faults, requeues,
    \* JudgeWorker.shutdown, per process
    wshut, wcancel,
    \* cleanup_expired_keys (one supervisor thread) and key expiry
    aged, cpc, ckeys,
    \* POST /health/restart
    rspc, restart_flag, restart_ret,
    \* the submissions list with its entries numbered in push order
    squeue, spushed, spopped,
    \* per task: its hash has been PENDING for more than 5 s
    stale,
    \* requeues granted to Recovery beyond MaxRequeues, fixed for a behaviour
    rextra,
    \* WorkerManager.workers: the worker id held by each slot of the pool
    pool,
    \* asyncio.gather over the executions of one submission: what each execution
    \* returns, the order in which they finish, the result list being filled
    outcome, gorder, gresults,
    \* services/utils.py: the map _process_groups, the live processes, the position
    \* in cleanup_process / managed_process_execution and their locals
    process_groups, palive, mpc, mctx,
    \* history
    hreturns, hconsumed, henq, orphan,
    \* process_judge_task_direct: the request, the pipeline, the aggregation loop
    language, mode, security_check, code_safe, compile_error, ncases, stdout_len,
    jpc, working_dir, compiled,
    cases, jidx, overall_status, passed_cases, case_status, test_case_results,
    verdict,
    \* _execute_with_limits, one execution
    epc, etime_limit, echild, ealive, ewatchdog, eresult

brokerVars == <<submissions, tstatus, tdata, results, submitted, fetched, processed>>
handlerVars == <<hpc, hgot, hret, hreturns, hconsumed, henq>>
workerVars == <<wpc, wcur, wpushes, orphan, wshut, wcancel>>
recoveryVars == <<rpc, rkeys, rqlen, rcur, rdata>>
envVars == <<faults, requeues>>
cleanupVars == <<aged, cpc, ckeys>>
restartVars == <<rspc, restart_flag, restart_ret>>
fifoVars == <<squeue, spushed, spopped>>
gatherVars == <<outcome, gorder, gresults>>
procVars == <<process_groups, palive, mpc, mctx>>
sideVars == <<fifoVars, stale, rextra, pool, gatherVars, procVars>>
queueVars == <<brokerVars, handlerVars, workerVars, recoveryVars, envVars,
               cleanupVars, restartVars, sideVars>>
requestVars == <<language, mode, security_check, code_safe, compile_error, ncases,
                 stdout_len>>
pipelineVars == <<requestVars, jpc, working_dir, compiled, cases, jidx,
                  overall_status, passed_cases, case_status, test_case_results,
                  verdict>>
execVars == <<epc, etime_limit, echild, ealive, ewatchdog, eresult>>
judgeVars == <<pipelineVars, execVars>>
restVars == <<cleanupVars, restartVars, sideVars, judgeVars>>
vars == <<queueVars, judgeVars>>

\* ------------------------------------------------------------ JudgeStatus
PENDING == "pending"
RUNNING == "running"
ACCEPTED == "accepted"
WRONG_ANSWER == "wrong_answer"
TIME_LIMIT_EXCEEDED == "time_limit_exceeded"
MEMORY_LIMIT_EXCEEDED == "memory_limit_exceeded"
RUNTIME_ERROR == "runtime_error"
COMPILATION_ERROR == "compilation_error"
SYSTEM_ERROR == "system_error"
ABSENT == "absent"

\* Language and JudgeMode
PYTHON == "python"
CPP == "cpp"
C == "c"
LEETCODE == "leetcode"
ACM == "acm"
FULLCODE == "fullcode"
EXECUTION == "execution"
MAX_TEST_CASE_RESULTS == 3

\* a Verdict as far as the rendezvous is concerned: its status, its task_id
\* and who pushed it
JudgeResult(st, t, who) == [status |-> st, task_id |-> t, by |-> who]
NoResult == [status |-> "none", task_id |-> NoTask, by |-> Recovery]

\* what a shutdown cancelled: the task and the step _process_task was at
Cancelled(t, step) == [task |-> t, at |-> step]
NoCancel == Cancelled(NoTask, "none")
\* what the handler returned, and through which of its return statements
Returned(st, t, how) ==
    [status |-> st, task_id |-> t, kind |-> how, about |-> "none"]
NoReturn == Returned("none", NoTask, "none")

\* ------------------------------------------------------- broker failures
\* A Redis call may raise (connection lost, server error); the callers' except
\* clauses exist for that.  A worker process may die.  The number of such faults
\* in one behaviour is bounded.
CanFail == faults < MaxFaults
Raise == faults' = faults + 1

\* ------------------------------------------- judge pipeline, data
\* max_length of truncate_output, and the length of "[... truncated ...]"
max_length == 256
TruncationMarker == 19

\* truncate_output, on the length of the text
truncate_output(len) ==
    IF len <= max_length
    THEN len
    ELSE (max_length \div 2) + TruncationMarker + (max_length \div 2)

\* the lengths of child output the model follows: one that truncate_output
\* keeps and one that it cuts
OutputLens == {ShortOutput, LongOutput}

Language == {PYTHON, CPP, C}
JudgeMode == {LEETCODE, ACM, FULLCODE, EXECUTION}

NoMetadata == [present |-> FALSE, passed |-> 0, total |-> 0]
NoMessage == "none"
UNSAFE_MESSAGE == "Code contains potentially unsafe operations"
COMPILE_MESSAGE == "compile_error"

\* JudgeResponse(status, error_message, test_case_results); the pipeline passes
\* no metadata
JudgeResponse(st, msg, tcr) ==
    [status |-> st, error_message |-> msg, test_case_results |-> tcr,
     metadata |-> NoMetadata]

NoVerdict == JudgeResponse("none", NoMessage, <<>>)

\* TestCaseResult(status, ..., actual_output=truncate_output(result.output)) of
\* test case i; result.output was cut once by the executor already
TestCaseResult(i, st, out) ==
    [case |-> i, status |-> st, actual_output |-> truncate_output(out)]

\* no judge pipeline is being followed
JudgeIdle ==
    /\ language = PYTHON /\ mode = ACM /\ security_check = TRUE /\ code_safe = TRUE
    /\ compile_error = FALSE /\ ncases = 0 /\ stdout_len = ShortOutput
    /\ jpc = "idle" /\ working_dir = "none" /\ compiled = FALSE
    /\ cases = <<>> /\ jidx = 0 /\ overall_status = ACCEPTED
    /\ passed_cases = 0 /\ case_status = <<>> /\ test_case_results = <<>>
    /\ verdict = NoVerdict

\* ------------------------------------------- executor, data
\* the process of the child itself within its process tree
Child == 0

\* the return codes of the child the model follows (negative: killed by that
\* signal), its running times and the time limits, in milliseconds
ReturnCodes == {0, 1, 2, -9, -11, 137, 139}
RunTimes == {k * 700 : k \in 1..MaxRunTime}
TimeLimits == {k * 1000 : k \in 1..MaxTimeLimit}

\* what the child does: its return code, whether its stderr holds
\* "AssertionError", how long it runs and how many descendants it has forked
ChildProcess ==
    [returncode : ReturnCodes, assertion : BOOLEAN, runtime : RunTimes,
     descendants : 0..MaxDescendants]

NoChild == [returncode |-> 0, assertion |-> FALSE, runtime |-> 0, descendants |-> 0]
NoExecution == [status |-> "none", execution_time |-> 0]

ExecIdle ==
    /\ epc = "idle" /\ etime_limit = 0 /\ echild = NoChild /\ ealive = {}
    /\ ewatchdog = 0 /\ eresult = NoExecution

\* ------------------------------------------------------------------ Init
\* the broker after reset_redis_state, the pool just started, no request yet;
\* extra is the number of requeues granted beyond MaxRequeues
QueueStart(extra) ==
    /\ submissions = <<>>
    /\ tstatus = [t \in Tasks |-> ABSENT]
    /\ tdata = [t \in Tasks |-> FALSE]
    /\ results = [t \in Tasks |-> <<>>]
    /\ submitted = 0 /\ fetched = 0 /\ processed = 0
    /\ hpc = [t \in Tasks |-> "start"]
    /\ hgot = [t \in Tasks |-> NoResult]
    /\ hret = [t \in Tasks |-> NoReturn]
    /\ hreturns = [t \in Tasks |-> 0]
    /\ hconsumed = [t \in Tasks |-> 0]
    /\ henq = [t \in Tasks |-> FALSE]
    /\ orphan = {}
    /\ wpc = [w \in Workers |-> "blpop"]
    /\ wcur = [w \in Workers |-> NoTask]
    /\ wpushes = [w \in Workers |-> 0]
    /\ rpc = "sleep" /\ rkeys = {} /\ rqlen = 0 /\ rcur = NoTask /\ rdata = FALSE
    /\ faults = 0 /\ requeues = 0
    /\ wshut = [w \in Workers |-> "no"]
    /\ wcancel = [w \in Workers |-> NoCancel]
    /\ aged = [t \in Tasks |-> FALSE]
    /\ cpc = "sleep" /\ ckeys = {}
    /\ rspc = "idle" /\ restart_flag = FALSE /\ restart_ret = "none"
    /\ squeue = <<>> /\ spushed = 0 /\ spopped = <<>>
    /\ stale = [t \in Tasks |-> FALSE]
    /\ rextra = extra
    /\ pool = [i \in 1..NumWorkers |-> i]
    /\ outcome = <<>> /\ gorder = <<>> /\ gresults = <<>>

\* no process is registered and no managed execution is under way
NoPid == 0
NoContext ==
    [by |-> "none", pid |-> NoPid, pgid |-> NoPid, process_id |-> NoPid,
     group |-> "none", direct |-> "none", denied |-> FALSE]
ProcIdle ==
    /\ process_groups = <<>> /\ palive = {} /\ mpc = "idle" /\ mctx = NoContext

QueueInit == QueueStart(0) /\ ProcIdle

Init == QueueInit /\ JudgeIdle /\ ExecIdle

\* ------------------------------------------------------ create_judge_task
\* the handler returns: the JudgeResult it hands to the HTTP caller
Return(t, res) ==
    /\ hpc' = [hpc EXCEPT ![t] = "done"]
    /\ hret' = [hret EXCEPT ![t] = res]
    /\ hreturns' = [hreturns EXCEPT ![t] = @ + 1]

\* the except clauses of the handler: SYSTEM_ERROR carrying str(e)
ReturnException(t) ==
    Return(t, Returned(SYSTEM_ERROR, t, "exception"))

\* redis.hset(task_key, mapping={status: PENDING, submitted_at, code_hash, data})
HandlerHset(t) ==
    /\ hpc[t] = "start"
    /\ \/ /\ tstatus' = [tstatus EXCEPT ![t] = PENDING]
          /\ tdata' = [tdata EXCEPT ![t] = TRUE]
          /\ hpc' = [hpc EXCEPT ![t] = "rpush"]
          /\ UNCHANGED <<hret, hreturns, faults>>
       \/ /\ CanFail /\ Raise /\ ReturnException(t)
          /\ UNCHANGED <<tstatus, tdata>>
    /\ UNCHANGED <<submissions, results, submitted, fetched, processed, hgot,
                   hconsumed, henq, workerVars, recoveryVars, requeues, restVars>>

\* redis.expire(task_key, RESULT_EXPIRY_TIME); redis.rpush(submission queue, payload)
HandlerRpush(t) ==
    /\ hpc[t] = "rpush"
    /\ \/ /\ submissions' = Append(submissions, t)
          /\ hpc' = [hpc EXCEPT ![t] = "incr"]
          /\ UNCHANGED <<hret, hreturns, faults>>
       \/ /\ CanFail /\ Raise /\ ReturnException(t)
          /\ UNCHANGED submissions
    /\ UNCHANGED <<tstatus, tdata, results, submitted, fetched, processed, hgot,
                   hconsumed, henq, workerVars, recoveryVars, requeues, restVars>>

\* redis.incr(submitted_count)
HandlerIncr(t) ==
    /\ hpc[t] = "incr"
    /\ \/ /\ submitted' = submitted + 1
          /\ henq' = [henq EXCEPT ![t] = TRUE]
          /\ hpc' = [hpc EXCEPT ![t] = "blpop"]
          /\ UNCHANGED <<hret, hreturns, faults>>
       \/ /\ CanFail /\ Raise /\ ReturnException(t)
          /\ UNCHANGED <<submitted, henq>>
    /\ UNCHANGED <<submissions, tstatus, tdata, results, fetched, processed, hgot,
                   hconsumed, workerVars, recoveryVars, requeues, restVars>>

\* mutant: the pop takes every entry of the list
BlpopAll(list) == <<Head(list), <<>>>>

\* what one blpop on results:<task_id> takes off the list
Blpop(list) == <<Head(list), Tail(list)>>

\* mutant: the blocking pop has no timeout
HandlerBlpopForever(t) ==
    /\ hpc[t] = "blpop"
    /\ results[t] # <<>>
    /\ hgot' = [hgot EXCEPT ![t] = Blpop(results[t])[1]]
    /\ results' = [results EXCEPT ![t] = Blpop(results[t])[2]]
    /\ hconsumed' = [hconsumed EXCEPT ![t] = @ + 1]
    /\ hpc' = [hpc EXCEPT ![t] = "delete"]
    /\ UNCHANGED <<submissions, tstatus, tdata, submitted, fetched, processed, hret,
                   hreturns, henq, workerVars, recoveryVars, envVars, restVars>>

\* redis.blpop(results:<task_id>, timeout=MAX_LATENCY): a hit, the timeout
\* (only while the list is empty), or an exception
HandlerBlpop(t) ==
    /\ hpc[t] = "blpop"
    /\ \/ /\ results[t] # <<>>
          /\ hgot' = [hgot EXCEPT ![t] = Blpop(results[t])[1]]
          /\ results' = [results EXCEPT ![t] = Blpop(results[t])[2]]
          /\ hconsumed' = [hconsumed EXCEPT
                             ![t] = @ + Len(results[t]) - Len(Blpop(results[t])[2])]
          /\ hpc' = [hpc EXCEPT ![t] = "delete"]
          /\ UNCHANGED <<hret, hreturns, faults>>
       \/ /\ results[t] = <<>>
          /\ hpc' = [hpc EXCEPT ![t] = "hget"]
          /\ UNCHANGED <<hgot, results, hconsumed, hret, hreturns, faults>>
       \/ /\ CanFail /\ Raise /\ ReturnException(t)
          /\ UNCHANGED <<hgot, results, hconsumed>>
    /\ UNCHANGED <<submissions, tstatus, tdata, submitted, fetched, processed,
                   henq, workerVars, recoveryVars, requeues, restVars>>

\* the diagnostic of the timeout branch read the other way round
TimeoutDiagnosticSwapped(st) ==
    IF st = PENDING THEN "other_status"
    ELSE IF st = ABSENT THEN "not_found"
    ELSE "still_pending"

\* the diagnostic of the timeout branch, by the task hash's status
TimeoutDiagnostic(st) ==
    IF st = PENDING THEN "still_pending"
    ELSE IF st = ABSENT THEN "not_found"
    ELSE "other_status"

\* the JudgeResult of the timeout branch; the third message quotes the status
TimedOut(t, st) ==
    [status |-> SYSTEM_ERROR, task_id |-> t, kind |-> TimeoutDiagnostic(st),
     about |-> IF TimeoutDiagnostic(st) = "other_status" THEN st ELSE "none"]

\* result is None: redis.hget(task_key, "status") and the three SYSTEM_ERROR returns
HandlerTimeout(t) ==
    /\ hpc[t] = "hget"
    /\ \/ /\ Return(t, TimedOut(t, tstatus[t]))
          /\ UNCHANGED faults
       \/ CanFail /\ Raise /\ ReturnException(t)
    /\ UNCHANGED <<brokerVars, hgot, hconsumed, henq, workerVars, recoveryVars,
                   requeues, restVars>>

\* the delete of the results list alone, the task hash left in place
HandlerDeleteResultsOnly(t) ==
    /\ hpc[t] = "delete"
    /\ \/ /\ results' = [results EXCEPT ![t] = <<>>]
          /\ Return(t, Returned(hgot[t].status, hgot[t].task_id, "popped"))
          /\ UNCHANGED <<faults, tstatus, tdata>>
       \/ /\ CanFail /\ Raise /\ ReturnException(t)
          /\ UNCHANGED <<results, tstatus, tdata>>
    /\ hgot' = [hgot EXCEPT ![t] = NoResult]
    /\ UNCHANGED <<submissions, submitted, fetched, processed, hconsumed, henq,
                   workerVars, recoveryVars, requeues, restVars>>

\* pipeline(transaction=True): delete results:<task_id>, delete task_key; then
\* return the popped JudgeResult
HandlerDelete(t) ==
    /\ hpc[t] = "delete"
    /\ \/ /\ results' = [results EXCEPT ![t] = <<>>]
          /\ tstatus' = [tstatus EXCEPT ![t] = ABSENT]
          /\ tdata' = [tdata EXCEPT ![t] = FALSE]
          /\ Return(t, Returned(hgot[t].status, hgot[t].task_id, "popped"))
          /\ UNCHANGED faults
       \/ /\ CanFail /\ Raise /\ ReturnException(t)
          /\ UNCHANGED <<results, tstatus, tdata>>
    /\ hgot' = [hgot EXCEPT ![t] = NoResult]
    /\ UNCHANGED <<submissions, submitted, fetched, processed, hconsumed, henq,
                   workerVars, recoveryVars, requeues, restVars>>

create_judge_task(t) ==
    \/ HandlerHset(t)
    \/ HandlerRpush(t)
    \/ HandlerIncr(t)
    \/ HandlerBlpop(t)
    \/ HandlerTimeout(t)
    \/ HandlerDelete(t)

\* ------------------------------------------------------------ JudgeWorker
\* the worker leaves _process_task / the loop body and blocks on the queue again
NextTask(w) == wcur' = [wcur EXCEPT ![w] = NoTask]

\* timeout=None of redis.blpop: block until an element arrives
NoTimeout == 0

\* _run_async_loop: timeout = 1 if self.shutdown_event.is_set() else None
PopTimeout(shutting_down) == IF shutting_down THEN 1 ELSE NoTimeout

\* the worker in redis.blpop(submission queue, timeout): "blpop" is the pop that
\* blocks without a timeout
PopState(timeout) == IF timeout = NoTimeout THEN "blpop" ELSE "blpop_timed"

\* _run_async_loop, while not self.shutdown_event.is_set(): the next iteration
\* computes the timeout and blocks on the queue, or the loop ends
LoopTop(w) ==
    IF wshut[w] = "no" THEN PopState(PopTimeout(wshut[w] # "no")) ELSE "exit"

\* self.current_task is not done, self.current_submission is set
InTask(w) == wpc[w] \in {"hset", "judge", "rpush", "incr_processed", "except"}

\* redis.rpush(results:<task_id>, verdict) by producer who
PushResult(t, st, who) ==
    results' = [results EXCEPT ![t] = Append(@, JudgeResult(st, t, who))]

\* _run_async_loop: redis.blpop(submission queue); on an exception the loop logs,
\* sleeps 1 s and retries
WorkerBlpop(w) ==
    /\ wpc[w] = "blpop"
    /\ \/ /\ submissions # <<>>
          /\ wcur' = [wcur EXCEPT ![w] = Head(submissions)]
          /\ submissions' = Tail(submissions)
          /\ wpushes' = [wpushes EXCEPT ![w] = 0]
          /\ wpc' = [wpc EXCEPT ![w] = "incr_fetched"]
          /\ UNCHANGED faults
       \/ /\ CanFail /\ Raise
          /\ wpc' = [wpc EXCEPT ![w] = "sleep"]
          /\ UNCHANGED <<wcur, wpushes, submissions>>
    /\ UNCHANGED <<tstatus, tdata, results, submitted, fetched, processed,
                   handlerVars, orphan, wshut, wcancel,
                   recoveryVars, requeues, restVars>>

\* mutant: the fetched counter is not incremented
WorkerIncrFetchedSkipped(w) ==
    /\ wpc[w] = "incr_fetched"
    /\ wpc' = [wpc EXCEPT ![w] = "hset"]
    /\ UNCHANGED <<brokerVars, handlerVars, wcur, wpushes, orphan, wshut, wcancel,
                   recoveryVars,
                   envVars, restVars>>

\* _run_async_loop: redis.incr(fetched_count), model_validate_json, task_context,
\* create_task(_process_task)
WorkerIncrFetched(w) ==
    /\ wpc[w] = "incr_fetched"
    /\ \/ /\ fetched' = fetched + 1
          /\ wpc' = [wpc EXCEPT ![w] = "hset"]
          /\ UNCHANGED <<wcur, faults>>
       \/ /\ CanFail /\ Raise
          /\ wpc' = [wpc EXCEPT ![w] = "sleep"]
          /\ NextTask(w)
          /\ UNCHANGED fetched
    /\ UNCHANGED <<submissions, tstatus, tdata, results, submitted, processed,
                   handlerVars, wpushes, orphan, wshut, wcancel,
                   recoveryVars, requeues, restVars>>

\* _process_task: redis.hset(task_key, "status", RUNNING)
WorkerHset(w) ==
    /\ wpc[w] = "hset"
    /\ \/ /\ tstatus' = [tstatus EXCEPT ![wcur[w]] = RUNNING]
          /\ wpc' = [wpc EXCEPT ![w] = "judge"]
          /\ UNCHANGED faults
       \/ /\ CanFail /\ Raise
          /\ wpc' = [wpc EXCEPT ![w] = "except"]
          /\ UNCHANGED tstatus
    /\ UNCHANGED <<submissions, tdata, results, submitted, fetched, processed,
                   handlerVars, wcur, wpushes, orphan, wshut, wcancel,
                   recoveryVars, requeues,
                   restVars>>

\* _process_task: redis.expire(task_key, ...); result = process_judge_task(submission),
\* which returns a verdict or raises
WorkerJudge(w) ==
    /\ wpc[w] = "judge"
    /\ \/ wpc' = [wpc EXCEPT ![w] = "rpush"]
       \/ wpc' = [wpc EXCEPT ![w] = "except"]
    /\ UNCHANGED <<brokerVars, handlerVars, wcur, wpushes, orphan, wshut, wcancel,
                   recoveryVars,
                   envVars, restVars>>

\* _process_task: redis.rpush(results:<task_id>, result.model_dump_json())
WorkerRpush(w) ==
    /\ wpc[w] = "rpush"
    /\ \/ /\ PushResult(wcur[w], "judged", w)
          /\ wpushes' = [wpushes EXCEPT ![w] = @ + 1]
          /\ wpc' = [wpc EXCEPT ![w] = "incr_processed"]
          /\ UNCHANGED faults
       \/ /\ CanFail /\ Raise
          /\ wpc' = [wpc EXCEPT ![w] = "except"]
          /\ UNCHANGED <<results, wpushes>>
    /\ UNCHANGED <<submissions, tstatus, tdata, submitted, fetched, processed,
                   handlerVars, wcur, orphan, wshut, wcancel,
                   recoveryVars, requeues, restVars>>

\* _process_task: redis.incr(processed_count)
WorkerIncrProcessed(w) ==
    /\ wpc[w] = "incr_processed"
    /\ \/ /\ processed' = processed + 1
          /\ wpc' = [wpc EXCEPT ![w] = LoopTop(w)]
          /\ NextTask(w)
          /\ UNCHANGED faults
       \/ /\ CanFail /\ Raise
          /\ wpc' = [wpc EXCEPT ![w] = "except"]
          /\ UNCHANGED <<processed, wcur>>
    /\ UNCHANGED <<submissions, tstatus, tdata, results, submitted, fetched,
                   handlerVars, wpushes, orphan, wshut, wcancel,
                   recoveryVars, requeues, restVars>>

\* mutant: the except clause pushes a verdict that is no SYSTEM_ERROR
ErrorResultJudged(t, w) == JudgeResult("judged", t, w)

\* the JudgeResult the except clause of _process_task builds
ErrorResult(t, w) == JudgeResult(SYSTEM_ERROR, t, w)

\* _process_task, except Exception: rpush of the SYSTEM_ERROR JudgeResult; if that
\* push raises, the exception reaches the loop's except clause
WorkerExcept(w) ==
    /\ wpc[w] = "except"
    /\ \/ /\ results' = [results EXCEPT ![wcur[w]] = Append(@, ErrorResult(wcur[w], w))]
          /\ wpushes' = [wpushes EXCEPT ![w] = @ + 1]
          /\ wpc' = [wpc EXCEPT ![w] = LoopTop(w)]
          /\ UNCHANGED faults
       \/ /\ CanFail /\ Raise
          /\ wpc' = [wpc EXCEPT ![w] = "sleep"]
          /\ UNCHANGED <<results, wpushes>>
    /\ NextTask(w)
    /\ UNCHANGED <<submissions, tstatus, tdata, submitted, fetched, processed,
                   handlerVars, orphan, wshut, wcancel,
                   recoveryVars, requeues, restVars>>

\* _run_async_loop, except Exception: asyncio.sleep(1), then the next iteration
WorkerSleep(w) ==
    /\ wpc[w] = "sleep"
    /\ wpc' = [wpc EXCEPT ![w] = LoopTop(w)]
    /\ UNCHANGED <<brokerVars, handlerVars, wcur, wpushes, orphan, wshut, wcancel,
                   recoveryVars,
                   envVars, restVars>>

\* shutdown(), scheduled by the SIGTERM / SIGINT handler: shutdown_event.set();
\* with a task in progress it waits for it, otherwise it goes on to the cleanup.
\* The signal is one of the bounded environment events.
WorkerSigterm(w) ==
    /\ wpc[w] \notin {"dead", "exit"}
    /\ wshut[w] = "no"
    /\ CanFail /\ Raise
    /\ wshut' = [wshut EXCEPT ![w] = IF InTask(w) THEN "wait" ELSE "cleanup"]
    /\ UNCHANGED <<brokerVars, handlerVars, wpc, wcur, wpushes, orphan, wcancel,
                   recoveryVars, requeues, restVars>>

\* shutdown(): wait_for(self.current_task, TASK_COMPLETION_TIMEOUT) returns, the
\* task has completed
ShutdownTaskDone(w) ==
    /\ wshut[w] = "wait"
    /\ ~InTask(w)
    /\ wshut' = [wshut EXCEPT ![w] = "cleanup"]
    /\ UNCHANGED <<brokerVars, handlerVars, wpc, wcur, wpushes, orphan, wcancel,
                   recoveryVars, envVars, restVars>>

\* shutdown(), except asyncio.TimeoutError: self.current_task.cancel(). The
\* CancelledError passes the except Exception of _process_task and of the loop,
\* task_context resets current_submission, _run_async_loop ends
ShutdownTimeout(w) ==
    /\ wshut[w] = "wait"
    /\ InTask(w)
    /\ wcancel' = [wcancel EXCEPT ![w] = Cancelled(wcur[w], wpc[w])]
    /\ wpc' = [wpc EXCEPT ![w] = "exit"]
    /\ NextTask(w)
    /\ wshut' = [wshut EXCEPT ![w] = "cleanup"]
    /\ UNCHANGED <<brokerVars, handlerVars, wpushes, orphan, recoveryVars, envVars,
                   restVars>>

\* _cleanup_resources: current_submission is set and its hash says RUNNING
Discards(w) == InTask(w) /\ tstatus[wcur[w]] = RUNNING

\* _cleanup_resources: delete the worker's state key; if a submission is current
\* and its status is RUNNING, hset(task_key, "status", SYSTEM_ERROR)
ShutdownCleanup(w) ==
    /\ wshut[w] = "cleanup"
    /\ IF Discards(w)
       THEN /\ tstatus' = [tstatus EXCEPT ![wcur[w]] = SYSTEM_ERROR]
            /\ wshut' = [wshut EXCEPT ![w] = "discard"]
       ELSE /\ wshut' = [wshut EXCEPT ![w] = "done"]
            /\ UNCHANGED tstatus
    /\ UNCHANGED <<submissions, tdata, results, submitted, fetched, processed,
                   handlerVars, wpc, wcur, wpushes, orphan, wcancel, recoveryVars,
                   envVars, restVars>>

\* _cleanup_resources: rpush of "Task discarded during system shutdown" for
\* self.current_submission.task_id; with current_submission reset meanwhile the
\* attribute access raises and the except clause logs it
ShutdownRpush(w) ==
    /\ wshut[w] = "discard"
    /\ IF InTask(w)
       THEN /\ results' = [results EXCEPT ![wcur[w]] = Append(@, ErrorResult(wcur[w], w))]
            /\ wpushes' = [wpushes EXCEPT ![w] = @ + 1]
       ELSE UNCHANGED <<results, wpushes>>
    /\ wshut' = [wshut EXCEPT ![w] = "done"]
    /\ UNCHANGED <<submissions, tstatus, tdata, submitted, fetched, processed,
                   handlerVars, wpc, wcur, orphan, wcancel, recoveryVars, envVars,
                   restVars>>

\* run(): _run_async_loop has ended, the finally clause runs shutdown() once
\* more (nothing is current any more) and the process ends
WorkerExit(w) ==
    /\ wpc[w] = "exit"
    /\ wshut[w] = "done"
    /\ wpc' = [wpc EXCEPT ![w] = "dead"]
    /\ wshut' = [wshut EXCEPT ![w] = "no"]
    /\ UNCHANGED <<brokerVars, handlerVars, wcur, wpushes, orphan, wcancel,
                   recoveryVars, envVars, restVars>>

\* the signal, JudgeWorker.shutdown and the end of JudgeWorker.run
shutdown(w) ==
    \/ WorkerSigterm(w)
    \/ ShutdownTaskDone(w)
    \/ ShutdownTimeout(w)
    \/ ShutdownCleanup(w)
    \/ ShutdownRpush(w)
    \/ WorkerExit(w)

JudgeWorker(w) ==
    \/ WorkerBlpop(w)
    \/ WorkerIncrFetched(w)
    \/ WorkerHset(w)
    \/ WorkerJudge(w)
    \/ WorkerRpush(w)
    \/ WorkerIncrProcessed(w)
    \/ WorkerExcept(w)
    \/ WorkerSleep(w)

\* the worker process dies (killed, out of memory): whatever it held is gone.
\* orphan records the tasks whose worker died between the RUNNING transition and
\* the push of the verdict.
WorkerDies(w) ==
    /\ wpc[w] # "dead"
    /\ CanFail /\ Raise
    /\ wpc' = [wpc EXCEPT ![w] = "dead"]
    /\ NextTask(w)
    /\ orphan' = IF wpc[w] \in {"judge", "rpush"} THEN orphan \cup {wcur[w]} ELSE orphan
    /\ wshut' = [wshut EXCEPT ![w] = "no"]
    /\ UNCHANGED <<brokerVars, handlerVars, wpushes, wcancel, recoveryVars, requeues,
                   restVars>>

\* mutant: the replacement is created under the next worker id
ReplacementNextId(worker_id) == (worker_id % NumWorkers) + 1

\* new_worker = JudgeWorker(worker.worker_id): the id of the replacement
Replacement(worker_id) == worker_id

\* the slots i with not self.workers[i].is_alive()
DeadSlots == {i \in DOMAIN pool : wpc[pool[i]] = "dead"}

\* the worker ids under which a pass starts a new process
Restarted == {Replacement(pool[i]) : i \in DeadSlots}

\* WorkerManager._monitor_workers: every worker that is not alive is replaced,
\* in its slot, by a new JudgeWorker with the same worker_id, which is started
MonitorWorkers ==
    /\ DeadSlots # {}
    /\ pool' = [i \in DOMAIN pool |->
                  IF i \in DeadSlots THEN Replacement(pool[i]) ELSE pool[i]]
    /\ wpc' = [w \in Workers |-> IF w \in Restarted THEN "blpop" ELSE wpc[w]]
    /\ wcancel' = [w \in Workers |-> IF w \in Restarted THEN NoCancel ELSE wcancel[w]]
    /\ UNCHANGED <<brokerVars, handlerVars, wcur, wpushes, orphan, wshut, recoveryVars,
                   envVars, cleanupVars, restartVars, fifoVars, stale, rextra,
                   gatherVars, procVars, judgeVars>>

\* ------------------------------------------------------ recover_lost_tasks
\* task_keys = redis.keys("<prefix>task:*")
RecoverKeys ==
    /\ rpc = "sleep"
    /\ rkeys' = {t \in Tasks : tstatus[t] # ABSENT}
    /\ rpc' = "llen"
    /\ UNCHANGED <<brokerVars, handlerVars, workerVars, rqlen, rcur, rdata, envVars,
                   restVars>>

\* queue_length = redis.llen(submission queue)
RecoverLlen ==
    /\ rpc = "llen"
    /\ rqlen' = Len(submissions)
    /\ rpc' = "scan"
    /\ UNCHANGED <<brokerVars, handlerVars, workerVars, rkeys, rcur, rdata, envVars,
                   restVars>>

\* mutant: only a RUNNING task counts as lost
LostRunning(st, queue_length) == st = RUNNING /\ queue_length = 0

\* the test that makes a key a lost pending task
LostPending(st, queue_length) == st = PENDING /\ queue_length = 0

\* for key in task_keys: pipeline hget status, hget submitted_at
RecoverStatus(t) ==
    /\ rpc = "scan"
    /\ t \in rkeys
    /\ IF LostPending(tstatus[t], rqlen)
       THEN /\ requeues < MaxRequeues + rextra
            /\ requeues' = requeues + 1
            /\ rcur' = t
            /\ rpc' = "hget_data"
            /\ UNCHANGED rkeys
       ELSE /\ rkeys' = rkeys \ {t}
            /\ UNCHANGED <<rcur, rpc, requeues>>
    /\ UNCHANGED <<brokerVars, handlerVars, workerVars, rqlen, rdata, faults,
                   restVars>>

\* task_data = redis.hget(key, "data")
RecoverData ==
    /\ rpc = "hget_data"
    /\ rdata' = tdata[rcur]
    /\ rpc' = "rpush"
    /\ UNCHANGED <<brokerVars, handlerVars, workerVars, rkeys, rqlen, rcur, envVars,
                   restVars>>

\* mutant: the task is requeued also when its hash has no data
RecoverRpushAlways ==
    /\ rpc = "rpush"
    /\ submissions' = Append(submissions, rcur)
    /\ rkeys' = rkeys \ {rcur}
    /\ rcur' = NoTask
    /\ rdata' = FALSE
    /\ rpc' = "scan"
    /\ UNCHANGED <<tstatus, tdata, results, submitted, fetched, processed,
                   handlerVars, workerVars, rqlen, envVars, restVars>>

\* if task_data: rpush it onto the submission queue; else rpush a SYSTEM_ERROR
\* JudgeResult onto results:<task_id>
RecoverRpush ==
    /\ rpc = "rpush"
    /\ IF rdata
       THEN /\ submissions' = Append(submissions, rcur)
            /\ UNCHANGED results
       ELSE /\ PushResult(rcur, SYSTEM_ERROR, Recovery)
            /\ UNCHANGED submissions
    /\ rkeys' = rkeys \ {rcur}
    /\ rcur' = NoTask
    /\ rdata' = FALSE
    /\ rpc' = "scan"
    /\ UNCHANGED <<tstatus, tdata, submitted, fetched, processed, handlerVars,
                   workerVars, rqlen, envVars, restVars>>

\* except Exception inside the loop over the keys: log, go on with the next key
RecoverKeyError ==
    /\ rpc \in {"hget_data", "rpush"}
    /\ CanFail /\ Raise
    /\ rkeys' = rkeys \ {rcur}
    /\ rcur' = NoTask
    /\ rdata' = FALSE
    /\ rpc' = "scan"
    /\ UNCHANGED <<brokerVars, handlerVars, workerVars, rqlen, requeues, restVars>>

\* all keys seen: _run_recovery sleeps RECOVER_INTERVAL
RecoverSleep ==
    /\ rpc = "scan"
    /\ rkeys = {}
    /\ rpc' = "sleep"
    /\ UNCHANGED <<brokerVars, handlerVars, workerVars, rkeys, rqlen, rcur, rdata,
                   envVars, restVars>>

recover_lost_tasks ==
    \/ RecoverKeys
    \/ RecoverLlen
    \/ \E t \in Tasks : RecoverStatus(t)
    \/ RecoverData
    \/ RecoverRpush
    \/ RecoverKeyError
    \/ RecoverSleep

\* ---------------------------------------- key expiry, cleanup_expired_keys
\* settings.MAX_LATENCY and settings.RESULT_EXPIRY_TIME, in seconds
MAX_LATENCY == 180
RESULT_EXPIRY_TIME == 3600

\* mutant: a key counts as expired whatever its age
ExpiredAny(t) == TRUE

\* current_time - submitted_at > RESULT_EXPIRY_TIME, and the TTL the handler and
\* the worker put on the task hash has run out
Expired(t) == aged[t]

\* time passes: RESULT_EXPIRY_TIME after the hash of t was written. The handler
\* returns MAX_LATENCY after its blpop at the latest, so with MAX_LATENCY below
\* RESULT_EXPIRY_TIME its call is over by then
Ages(t) ==
    /\ ~aged[t]
    /\ tstatus[t] # ABSENT
    /\ hpc[t] = "done" \/ RESULT_EXPIRY_TIME <= MAX_LATENCY
    /\ aged' = [aged EXCEPT ![t] = TRUE]
    /\ UNCHANGED <<brokerVars, handlerVars, workerVars, recoveryVars, envVars,
                   cpc, ckeys, restartVars, sideVars, judgeVars>>

\* redis.expire(task_key, RESULT_EXPIRY_TIME): the broker drops the task hash
KeyExpires(t) ==
    /\ tstatus[t] # ABSENT
    /\ Expired(t)
    /\ tstatus' = [tstatus EXCEPT ![t] = ABSENT]
    /\ tdata' = [tdata EXCEPT ![t] = FALSE]
    /\ UNCHANGED <<submissions, results, submitted, fetched, processed,
                   handlerVars, workerVars, recoveryVars, envVars, restVars>>

\* the task hashes pass 1 deletes: those with a submitted_at that is too old
ExpiredTasks == {t \in Tasks : tstatus[t] # ABSENT /\ tdata[t] /\ Expired(t)}

\* mutant: pass 2 marks nothing
OrphanedResultsNone == {}

\* mutant: pass 2 marks every results list, without redis.exists(task_key)
OrphanedResultsAll == {t \in Tasks : results[t] # <<>>}

\* the results lists pass 2 marks: those whose task hash does not exist
OrphanedResults == {t \in Tasks : results[t] # <<>> /\ tstatus[t] = ABSENT}

\* cleanup_expired_keys, pass 1: scan task:*, delete each expired task hash and
\* its results list. A pass that finds no key at all is left out.
CleanupExpired ==
    /\ cpc = "sleep"
    /\ \E t \in Tasks : tstatus[t] # ABSENT \/ results[t] # <<>>
    /\ tstatus' = [t \in Tasks |-> IF t \in ExpiredTasks THEN ABSENT ELSE tstatus[t]]
    /\ tdata' = [t \in Tasks |-> IF t \in ExpiredTasks THEN FALSE ELSE tdata[t]]
    /\ results' = [t \in Tasks |-> IF t \in ExpiredTasks THEN <<>> ELSE results[t]]
    /\ cpc' = "orphans"
    /\ UNCHANGED <<submissions, submitted, fetched, processed, handlerVars,
                   workerVars, recoveryVars, envVars, aged, ckeys, restartVars,
                   sideVars, judgeVars>>

\* cleanup_expired_keys, pass 2: scan results:*, redis.exists(task_key) for each
CleanupOrphans ==
    /\ cpc = "orphans"
    /\ ckeys' = OrphanedResults
    /\ cpc' = IF OrphanedResults # {} THEN "delete" ELSE "sleep"
    /\ UNCHANGED <<brokerVars, handlerVars, workerVars, recoveryVars, envVars,
                   aged, restartVars, sideVars, judgeVars>>

\* cleanup_expired_keys, pass 2: pipe.execute() deletes the marked results lists
CleanupDelete ==
    /\ cpc = "delete"
    /\ results' = [t \in Tasks |-> IF t \in ckeys THEN <<>> ELSE results[t]]
    /\ ckeys' = {}
    /\ cpc' = "sleep"
    /\ UNCHANGED <<submissions, tstatus, tdata, submitted, fetched, processed,
                   handlerVars, workerVars, recoveryVars, envVars, aged,
                   restartVars, sideVars, judgeVars>>

cleanup_expired_keys ==
    \/ CleanupExpired
    \/ CleanupOrphans
    \/ CleanupDelete

\* ------------------------------------------------------ POST /health/restart
\* the members of the enumeration RedisQueue
RedisQueue ==
    {"SUBMISSIONS", "RESULTS", "WORKERS", "TASKS", "PROCESSED", "SUBMITTED", "FETCHED"}

\* restart(): RedisManager.set(RedisQueue.RESTART, "True"), then the answer
\* {"status": "restarting"}; looking up a name the enumeration does not have
\* raises AttributeError. The operator's request is one of the bounded
\* environment events.
restart ==
    /\ rspc = "idle"
    /\ CanFail /\ Raise
    /\ rspc' = "done"
    /\ IF "RESTART" \in RedisQueue
       THEN restart_flag' = TRUE /\ restart_ret' = "restarting"
       ELSE restart_flag' = restart_flag /\ restart_ret' = "error"
    /\ UNCHANGED <<brokerVars, handlerVars, workerVars, recoveryVars, requeues,
                   cleanupVars, sideVars, judgeVars>>

\* ------------------------------------------------------------------ Spec
Next ==
    \/ \E t \in Tasks : create_judge_task(t)
    \/ \E w \in Workers : JudgeWorker(w)
    \/ \E w \in Workers : WorkerDies(w)
    \/ MonitorWorkers
    \/ recover_lost_tasks

Spec == Init /\ [][Next]_vars

\* time passes: the hash of t, written PENDING by the handler, has been PENDING
\* for more than 5 s (time.time() - submitted_at > 5 with the status unchanged)
PendingAges(t) ==
    /\ tstatus[t] = PENDING
    /\ ~stale[t]
    /\ stale' = [stale EXCEPT ![t] = TRUE]
    /\ UNCHANGED <<brokerVars, handlerVars, workerVars, recoveryVars, envVars,
                   cleanupVars, restartVars, fifoVars, rextra, pool, gatherVars, procVars, judgeVars>>

\* the queue with the age of the PENDING hashes
RecoveryNext ==
    \/ Next
    \/ \E t \in Tasks : PendingAges(t)

RecoverySpec == Init /\ [][RecoveryNext]_vars

\* the queue with Recovery allowed to requeue a second time
RequeueInit == QueueStart(1) /\ ProcIdle /\ JudgeIdle /\ ExecIdle

RequeueSpec == RequeueInit /\ [][Next]_vars

\* a worker process is killed from outside; such deaths are not counted among
\* the bounded faults, so that one behaviour holds any number of them
WorkerKilled(w) ==
    /\ wpc[w] # "dead"
    /\ wpc' = [wpc EXCEPT ![w] = "dead"]
    /\ NextTask(w)
    /\ orphan' = IF wpc[w] \in {"judge", "rpush"} THEN orphan \cup {wcur[w]} ELSE orphan
    /\ wshut' = [wshut EXCEPT ![w] = "no"]
    /\ UNCHANGED <<brokerVars, handlerVars, wpushes, wcancel, recoveryVars, envVars,
                   restVars>>

\* the queue with repeated worker deaths
PoolNext ==
    \/ Next
    \/ \E w \in Workers : WorkerKilled(w)

PoolSpec == Init /\ [][PoolNext]_vars

\* the queue together with worker shutdown, key expiry, the cleanup thread and
\* the restart endpoint
OpsNext ==
    \/ Next
    \/ \E w \in Workers : shutdown(w)
    \/ \E t \in Tasks : Ages(t)
    \/ \E t \in Tasks : KeyExpires(t)
    \/ cleanup_expired_keys
    \/ restart

OpsSpec == Init /\ [][OpsNext]_vars

\* the queue with key expiry and a cleanup thread whose pass, once begun, runs to
\* its end before any other process takes a step
QuietCleanupNext ==
    \/ /\ cpc = "sleep"
       /\ \/ Next
          \/ \E t \in Tasks : Ages(t)
          \/ \E t \in Tasks : KeyExpires(t)
          \/ CleanupExpired
    \/ CleanupOrphans
    \/ CleanupDelete

QuietCleanupSpec == Init /\ [][QuietCleanupNext]_vars

\* ---------------------------------------------- process_judge_task_direct
\* STATUS_PRIORITY.get(status, default)
STATUS_PRIORITY(status, default) ==
    CASE status = SYSTEM_ERROR -> 1
      [] status = COMPILATION_ERROR -> 2
      [] status = RUNTIME_ERROR -> 3
      [] status = TIME_LIMIT_EXCEEDED -> 4
      [] status = MEMORY_LIMIT_EXCEEDED -> 5
      [] status = WRONG_ANSWER -> 6
      [] status = ACCEPTED -> 7
      [] OTHER -> default

\* the statuses an execution hands back for one test case (_execute_with_limits,
\* judge_leetcode)
ExecutionStatus ==
    {ACCEPTED, WRONG_ANSWER, RUNTIME_ERROR, TIME_LIMIT_EXCEEDED,
     MEMORY_LIMIT_EXCEEDED, SYSTEM_ERROR}

\* one execution result: its status, and whether its normalized output equals the
\* normalized expected output (read for ACCEPTED results only)
ExecutionResult ==
    {r \in [status : ExecutionStatus, equal : BOOLEAN] :
        r.status = ACCEPTED \/ ~r.equal}

\* if result.status == ACCEPTED and the outputs differ: WRONG_ANSWER
Compared(result) ==
    IF result.status = ACCEPTED /\ ~result.equal THEN WRONG_ANSWER ELSE result.status

\* mutant: the priority comparison is reversed
UpdateOverallReversed(overall, status) ==
    IF status # ACCEPTED /\ STATUS_PRIORITY(status, 0) > STATUS_PRIORITY(overall, 7)
    THEN status
    ELSE overall

\* if result.status != ACCEPTED and its priority is below the overall one, it
\* becomes the overall status
UpdateOverall(overall, status) ==
    IF status # ACCEPTED /\ STATUS_PRIORITY(status, 0) < STATUS_PRIORITY(overall, 7)
    THEN status
    ELSE overall

\* mutant: every case is recorded, the passing ones too
RecordCaseAll(tcr, i, st, out) == Append(tcr, TestCaseResult(i, st, out))

\* a failing case is recorded while fewer than MAX_TEST_CASE_RESULTS are
RecordCase(tcr, i, st, out) ==
    IF st # ACCEPTED /\ Len(tcr) < MAX_TEST_CASE_RESULTS
    THEN Append(tcr, TestCaseResult(i, st, out))
    ELSE tcr

\* the request: a Submission with its language, mode, security_check flag, the
\* outcome of the static screen and of the compiler on its code, and the number
\* of its test cases
JudgeInit ==
    /\ QueueInit
    /\ ExecIdle
    /\ language \in Language
    /\ mode \in JudgeMode
    /\ security_check \in BOOLEAN
    /\ code_safe \in BOOLEAN
    /\ compile_error \in BOOLEAN
    /\ ncases \in 0..MaxCases
    /\ stdout_len \in OutputLens
    /\ jpc = "screen"
    /\ working_dir = "none"
    /\ compiled = FALSE
    /\ cases = <<>>
    /\ jidx = 0
    /\ overall_status = ACCEPTED
    /\ passed_cases = 0
    /\ case_status = <<>>
    /\ test_case_results = <<>>
    /\ verdict = NoVerdict

\* mutant: the screen's answer is not looked at
JudgeScreenSkipped ==
    /\ jpc = "screen"
    /\ jpc' = "workdir"
    /\ UNCHANGED <<queueVars, execVars, requestVars, working_dir, compiled, cases,
                   jidx, overall_status, passed_cases, case_status,
                   test_case_results, verdict>>

\* if not is_code_safe(request.code, request.language): return SYSTEM_ERROR
JudgeScreen ==
    /\ jpc = "screen"
    /\ IF ~code_safe
       THEN /\ verdict' = JudgeResponse(SYSTEM_ERROR, UNSAFE_MESSAGE, <<>>)
            /\ jpc' = "done"
       ELSE /\ jpc' = "workdir"
            /\ UNCHANGED verdict
    /\ UNCHANGED <<queueVars, execVars, requestVars, working_dir, compiled, cases,
                   jidx, overall_status, passed_cases, case_status,
                   test_case_results>>

\* working_dir = create_secure_execution_directory() for C and C++ only
JudgeWorkdir ==
    /\ jpc = "workdir"
    /\ working_dir' = IF language \in {C, CPP} THEN "created" ELSE "none"
    /\ jpc' = "compile"
    /\ UNCHANGED <<queueVars, execVars, requestVars, compiled, cases, jidx,
                   overall_status, passed_cases, case_status, test_case_results,
                   verdict>>

\* finally: clean_execution_directory(working_dir) if one was created
CleanWorkdir ==
    working_dir' = IF working_dir = "created" THEN "cleaned" ELSE working_dir

\* compile_code(...); a compile error returns COMPILATION_ERROR
JudgeCompile ==
    /\ jpc = "compile"
    /\ compiled' = TRUE
    /\ IF compile_error
       THEN /\ verdict' = JudgeResponse(COMPILATION_ERROR, COMPILE_MESSAGE, <<>>)
            /\ CleanWorkdir
            /\ jpc' = "done"
       ELSE /\ jpc' = "execute"
            /\ UNCHANGED <<verdict, working_dir>>
    /\ UNCHANGED <<queueVars, execVars, requestVars, cases, jidx, overall_status,
                   passed_cases, case_status, test_case_results>>

\* execution_results = await asyncio.gather(*execution_tasks), then the locals of
\* the aggregation are initialised
JudgeExecute ==
    /\ jpc = "execute"
    /\ cases' \in [1..ncases -> ExecutionResult]
    /\ jidx' = 0
    /\ overall_status' = ACCEPTED
    /\ passed_cases' = 0
    /\ case_status' = <<>>
    /\ test_case_results' = <<>>
    /\ jpc' = "aggregate"
    /\ UNCHANGED <<queueVars, execVars, requestVars, working_dir, compiled, verdict>>

\* one iteration of: for i, (test_case, result) in enumerate(zip(...))
JudgeCase ==
    /\ jpc = "aggregate"
    /\ verdict = NoVerdict
    /\ jidx < Len(cases)
    /\ jidx' = jidx + 1
    /\ case_status' = Append(case_status, Compared(cases[jidx + 1]))
    /\ passed_cases' = IF Compared(cases[jidx + 1]) = ACCEPTED
                       THEN passed_cases + 1 ELSE passed_cases
    /\ overall_status' = UpdateOverall(overall_status, Compared(cases[jidx + 1]))
    /\ test_case_results' =
           RecordCase(test_case_results, jidx + 1, Compared(cases[jidx + 1]),
                      truncate_output(stdout_len))
    /\ UNCHANGED <<queueVars, execVars, requestVars, jpc, working_dir, compiled,
                   cases, verdict>>

\* return JudgeResponse(status=overall_status, ..., test_case_results=...);
\* finally: the working directory is removed
JudgeReturn ==
    /\ jpc = "aggregate"
    /\ verdict = NoVerdict
    /\ jidx = Len(cases)
    /\ verdict' = JudgeResponse(overall_status, NoMessage, test_case_results)
    /\ CleanWorkdir
    /\ jpc' = "done"
    /\ UNCHANGED <<queueVars, execVars, requestVars, compiled, cases, jidx,
                   overall_status, passed_cases, case_status, test_case_results>>

JudgeNext ==
    \/ JudgeScreen
    \/ JudgeWorkdir
    \/ JudgeCompile
    \/ JudgeExecute
    \/ JudgeCase
    \/ JudgeReturn

JudgeSpec == JudgeInit /\ [][JudgeNext]_vars

\* ------------------------------------- asyncio.gather(*execution_tasks)
\* the place of a result that gather has not received yet
Pending == [status |-> "pending", equal |-> FALSE]

\* the result list filled in the order in which the executions finish
GatheredAsCompleted(res, i, r) ==
    [res EXCEPT ![Cardinality({j \in DOMAIN res : res[j] # Pending}) + 1] = r]

\* asyncio.gather: the result of the i-th awaitable is the i-th element of the
\* list it returns, whenever that awaitable finishes
Gathered(res, i, r) == [res EXCEPT ![i] = r]

\* a Python submission in ACM mode that passes the screen and has 1..MaxGather
\* test cases
GatherInit ==
    /\ QueueInit
    /\ ExecIdle
    /\ language = PYTHON /\ mode = ACM /\ security_check = TRUE /\ code_safe = TRUE
    /\ compile_error = FALSE /\ ncases \in 1..MaxGather /\ stdout_len = ShortOutput
    /\ jpc = "screen" /\ working_dir = "none" /\ compiled = FALSE
    /\ cases = <<>> /\ jidx = 0 /\ overall_status = ACCEPTED
    /\ passed_cases = 0 /\ case_status = <<>> /\ test_case_results = <<>>
    /\ verdict = NoVerdict

\* execution_tasks = [execute_code(..., test_case, ...) for test_case in
\* request.test_cases]: one execution per test case, all started together; what
\* each of them will return is fixed by the program and its input
GatherStart ==
    /\ jpc = "execute"
    /\ outcome' \in [1..ncases -> ExecutionResult]
    /\ gorder' = <<>>
    /\ gresults' = [i \in 1..ncases |-> Pending]
    /\ jpc' = "gather"
    /\ UNCHANGED <<brokerVars, handlerVars, workerVars, recoveryVars, envVars,
                   cleanupVars, restartVars, fifoVars, stale, rextra, pool,
                   procVars, execVars, requestVars, working_dir, compiled, cases, jidx,
                   overall_status, passed_cases, case_status, test_case_results,
                   verdict>>

\* the execution of test case i finishes, in any order among those still running
CaseCompletes(i) ==
    /\ jpc = "gather"
    /\ i \in DOMAIN outcome
    /\ \A k \in DOMAIN gorder : gorder[k] # i
    /\ gorder' = Append(gorder, i)
    /\ gresults' = Gathered(gresults, i, outcome[i])
    /\ UNCHANGED <<brokerVars, handlerVars, workerVars, recoveryVars, envVars,
                   cleanupVars, restartVars, fifoVars, stale, rextra, pool, outcome,
                   procVars, judgeVars>>

\* execution_results = await asyncio.gather(*execution_tasks) returns when the
\* last execution has finished; the locals of the aggregation are initialised
GatherReturns ==
    /\ jpc = "gather"
    /\ Len(gorder) = ncases
    /\ cases' = gresults
    /\ jidx' = 0
    /\ overall_status' = ACCEPTED
    /\ passed_cases' = 0
    /\ case_status' = <<>>
    /\ test_case_results' = <<>>
    /\ jpc' = "aggregate"
    /\ UNCHANGED <<queueVars, execVars, requestVars, working_dir, compiled, verdict>>

GatherNext ==
    \/ JudgeScreen
    \/ JudgeWorkdir
    \/ JudgeCompile
    \/ GatherStart
    \/ \E i \in 1..MaxGather : CaseCompletes(i)
    \/ GatherReturns
    \/ JudgeCase
    \/ JudgeReturn

GatherSpec == GatherInit /\ [][GatherNext]_vars


\* ------------------------------------------------- _execute_with_limits
ExecInit ==
    /\ QueueInit
    /\ JudgeIdle
    /\ epc = "spawn"
    /\ etime_limit \in TimeLimits
    /\ echild \in ChildProcess
    /\ ealive = {}
    /\ ewatchdog = 0
    /\ eresult = NoExecution

\* timeout=time_limit_sec * 1.5 of asyncio.wait_for, in milliseconds
Watchdog(time_limit_ms) == (time_limit_ms * 3) \div 2

\* process = await asyncio.create_subprocess_exec(...); the wait for
\* process.communicate() starts
ExecSpawn ==
    /\ epc = "spawn"
    /\ ealive' = {Child} \cup 1..echild.descendants
    /\ ewatchdog' = Watchdog(etime_limit)
    /\ epc' = "communicate"
    /\ UNCHANGED <<queueVars, pipelineVars, etime_limit, echild, eresult>>

\* except Exception (the subprocess cannot be created): SYSTEM_ERROR
ExecSpawnFails ==
    /\ epc = "spawn"
    /\ eresult' = [status |-> SYSTEM_ERROR, execution_time |-> 0]
    /\ epc' = "done"
    /\ UNCHANGED <<queueVars, pipelineVars, etime_limit, echild, ealive, ewatchdog>>

\* the status of a child that has finished, by its return code
ExitStatus(returncode, assertion) ==
    IF returncode # 0 THEN RUNTIME_ERROR ELSE ACCEPTED

\* communicate() returns before the timeout: the child has exited
ExecComplete ==
    /\ epc = "communicate"
    /\ echild.runtime <= ewatchdog
    /\ ealive' = ealive \ {Child}
    /\ eresult' = [status |-> ExitStatus(echild.returncode, echild.assertion),
                   execution_time |-> echild.runtime]
    /\ epc' = "done"
    /\ UNCHANGED <<queueVars, pipelineVars, etime_limit, echild, ewatchdog>>

\* process.kill(): the processes of the tree that the kill ends
Killed(tree) == {Child}

\* except asyncio.TimeoutError: process.kill(), TIME_LIMIT_EXCEEDED with the
\* full time limit as execution time
ExecTimeout ==
    /\ epc = "communicate"
    /\ echild.runtime > ewatchdog
    /\ ealive' = ealive \ Killed(ealive)
    /\ eresult' = [status |-> TIME_LIMIT_EXCEEDED, execution_time |-> etime_limit]
    /\ epc' = "done"
    /\ UNCHANGED <<queueVars, pipelineVars, etime_limit, echild, ewatchdog>>

ExecNext == ExecSpawn \/ ExecSpawnFails \/ ExecComplete \/ ExecTimeout

ExecSpec == ExecInit /\ [][ExecNext]_vars

\* ------------------------- services/utils.py: process groups and cleanup
\* the processes: the process that runs the judge, a child of it and a child of
\* that child
Pids == 1..MaxPids
Self == 1

\* process.children(recursive=True)
Descendants(pid) == {q \in Pids : q > pid}

\* the process group of a process: a child made itself the leader of a new group
\* (os.setpgid(0, 0) in setup_process_group) which its own children inherit; the
\* judge process stays in the group it was started in
GroupOf(pid) == IF pid = Self THEN NoPid ELSE Self + 1

\* the live processes that os.killpg(pgid, SIGKILL) signals
GroupMembers(pgid) == {q \in palive : GroupOf(q) = pgid}

\* _process_groups[pid] = pgid
MapSet(map, pid, pgid) ==
    [p \in DOMAIN map \cup {pid} |-> IF p = pid THEN pgid ELSE map[p]]

\* del _process_groups[pid]
MapDel(map, pid) == [p \in DOMAIN map \ {pid} |-> map[p]]

\* the errors os.killpg can raise
GroupErrors == {"ProcessLookupError", "PermissionError", "OSError"}

\* mutant: only a missing group is caught
CaughtLookupOnly(err) == err = "ProcessLookupError"

\* except (ProcessLookupError, PermissionError, OSError) around os.killpg
CaughtByGroupExcept(err) == err \in {"ProcessLookupError", "PermissionError", "OSError"}

\* cleanup_process(pid) is entered by caller who
CallCleanup(who, pid) ==
    /\ mpc' = "killpg"
    /\ mctx' = [mctx EXCEPT !.by = who, !.pid = pid, !.group = "none",
                            !.direct = "none"]

\* cleanup_process: pgid = _process_groups.get(pid); if pgid: os.killpg(pgid,
\* SIGKILL), which kills the live members of the group or raises; an error the
\* except clause does not catch reaches the outer except Exception, which logs
\* and returns
CleanupGroup ==
    /\ mpc = "killpg"
    /\ IF mctx.pid \notin DOMAIN process_groups
       THEN /\ mctx' = [mctx EXCEPT !.group = "skipped"]
            /\ mpc' = "direct"
            /\ UNCHANGED palive
       ELSE \/ /\ GroupMembers(process_groups[mctx.pid]) # {}
               /\ palive' = palive \ GroupMembers(process_groups[mctx.pid])
               /\ mctx' = [mctx EXCEPT !.group = "ok"]
               /\ mpc' = IF Self \in palive' THEN "direct" ELSE "killed"
            \/ \E err \in GroupErrors :
                   /\ err = "ProcessLookupError" =>
                          GroupMembers(process_groups[mctx.pid]) = {}
                   /\ mctx' = [mctx EXCEPT !.group = err]
                   /\ mpc' = IF CaughtByGroupExcept(err) THEN "direct" ELSE "returned"
                   /\ UNCHANGED palive
    /\ UNCHANGED <<brokerVars, handlerVars, workerVars, recoveryVars, envVars,
                   cleanupVars, restartVars, fifoVars, stale, rextra, pool,
                   gatherVars, process_groups, judgeVars>>

\* cleanup_process: psutil.Process(pid), kill its children, then process.kill();
\* NoSuchProcess is passed over, AccessDenied falls back on os.kill, whose
\* PermissionError is passed over
CleanupDirect ==
    /\ mpc = "direct"
    /\ mctx' = [mctx EXCEPT !.direct = "attempted"]
    /\ palive' = IF mctx.pid \in palive /\ ~mctx.denied
                  THEN palive \ ({mctx.pid} \cup Descendants(mctx.pid))
                  ELSE palive
    /\ mpc' = IF Self \in palive' THEN "del" ELSE "killed"
    /\ UNCHANGED <<brokerVars, handlerVars, workerVars, recoveryVars, envVars,
                   cleanupVars, restartVars, fifoVars, stale, rextra, pool,
                   gatherVars, process_groups, judgeVars>>

\* cleanup_process: if pid in _process_groups: del _process_groups[pid]
CleanupDel ==
    /\ mpc = "del"
    /\ process_groups' = MapDel(process_groups, mctx.pid)
    /\ mpc' = "returned"
    /\ UNCHANGED <<brokerVars, handlerVars, workerVars, recoveryVars, envVars,
                   cleanupVars, restartVars, fifoVars, stale, rextra, pool,
                   gatherVars, palive, mctx, judgeVars>>

cleanup_process ==
    \/ CleanupGroup
    \/ CleanupDirect
    \/ CleanupDel

\* a call of cleanup_process(pid): any pid, registered under a group or not, the
\* judge process alive, psutil allowed to signal or not
CleanupCalled ==
    /\ mpc = "killpg"
    /\ palive \in {a \in SUBSET Pids : Self \in a}
    /\ process_groups \in UNION {[d -> {Self, Self + 1}] : d \in SUBSET Pids}
    /\ \E pid \in Pids, denied \in BOOLEAN :
           mctx = [NoContext EXCEPT !.by = "call", !.pid = pid, !.denied = denied]

\* create_process_group(): return os.getpid()
create_process_group == Self

\* judge_leetcode: process = psutil.Process(); process.pid
CurrentPid == Self

\* judge_leetcode is about to enter managed_process_execution; nothing is
\* registered yet
LeetStart ==
    /\ mpc = "enter"
    /\ palive = {Self}
    /\ process_groups = <<>>
    /\ mctx = NoContext

\* managed_process_execution up to the yield: pgid = create_process_group(),
\* process_id = None
ManagedEnter ==
    /\ mpc \in {"enter", "exited"}
    /\ mctx' = [NoContext EXCEPT !.by = "leetcode", !.pgid = create_process_group,
                                 !.process_id = NoPid]
    /\ mpc' = "register"
    /\ UNCHANGED <<brokerVars, handlerVars, workerVars, recoveryVars, envVars,
                   cleanupVars, restartVars, fifoVars, stale, rextra, pool,
                   gatherVars, process_groups, palive, judgeVars>>

\* judge_leetcode: ctx["register_process"](process.pid) and
\* ctx["start_monitoring"](process.pid)
LeetRegister ==
    /\ mpc = "register"
    /\ process_groups' = MapSet(process_groups, CurrentPid, mctx.pgid)
    /\ mctx' = [mctx EXCEPT !.pid = CurrentPid]
    /\ mpc' = "run"
    /\ UNCHANGED <<brokerVars, handlerVars, workerVars, recoveryVars, envVars,
                   cleanupVars, restartVars, fifoVars, stale, rextra, pool,
                   gatherVars, palive, judgeVars>>

\* enforce_memory_limit: the resident memory of the monitored pid is above
\* kill_threshold (95%) of the limit: await cleanup_process(pid)
MemoryExceeded ==
    /\ mpc = "run"
    /\ CallCleanup("enforcer", mctx.pid)
    /\ UNCHANGED <<brokerVars, handlerVars, workerVars, recoveryVars, envVars,
                   cleanupVars, restartVars, fifoVars, stale, rextra, pool,
                   gatherVars, process_groups, palive, judgeVars>>

\* the function returns, raises or runs into its timeout: judge_leetcode leaves
\* the async with block
FnEnds ==
    /\ mpc = "run"
    /\ mpc' = "finally"
    /\ UNCHANGED <<brokerVars, handlerVars, workerVars, recoveryVars, envVars,
                   cleanupVars, restartVars, fifoVars, stale, rextra, pool,
                   gatherVars, process_groups, palive, mctx, judgeVars>>

\* managed_process_execution, finally: stop_event.set(), the monitoring tasks are
\* awaited, and if process_id: await cleanup_process(process_id)
ManagedExit ==
    /\ mpc = "finally"
    /\ IF mctx.process_id # NoPid
       THEN CallCleanup("exit", mctx.process_id)
       ELSE mpc' = "exited" /\ UNCHANGED mctx
    /\ UNCHANGED <<brokerVars, handlerVars, workerVars, recoveryVars, envVars,
                   cleanupVars, restartVars, fifoVars, stale, rextra, pool,
                   gatherVars, process_groups, palive, judgeVars>>

managed_process_execution ==
    \/ ManagedEnter
    \/ LeetRegister
    \/ MemoryExceeded
    \/ FnEnds
    \/ ManagedExit

\* calls of cleanup_process on any pid, and executions of judge_leetcode
ProcInit ==
    /\ QueueStart(0)
    /\ JudgeIdle
    /\ ExecIdle
    /\ CleanupCalled \/ LeetStart

ProcNext ==
    \/ cleanup_process
    \/ managed_process_execution

ProcSpec == ProcInit /\ [][ProcNext]_vars

\* ------------------------------------------ the submissions list, in order
\* mutant: the payload is pushed at the head of the list
Lpush(list, payload) == <<payload>> \o list

\* redis.rpush(submission queue, payload)
Rpush(list, payload) == Append(list, payload)

\* the entry a push puts on the list: the payload of task t, numbered in push order
Entry(t, who) == [task |-> t, seq |-> spushed + 1, by |-> who]

\* create_judge_task: redis.rpush(submission queue, submission.model_dump_json())
SubmitRpush(t) ==
    /\ spushed < MaxPushes
    /\ squeue' = Rpush(squeue, Entry(t, "handler"))
    /\ spushed' = spushed + 1
    /\ UNCHANGED <<brokerVars, handlerVars, workerVars, recoveryVars, envVars,
                   cleanupVars, restartVars, spopped, stale, rextra, pool, gatherVars, procVars, judgeVars>>

\* recover_lost_tasks: redis.rpush(submission queue, task_data)
RequeueRpush(t) ==
    /\ spushed < MaxPushes
    /\ squeue' = Rpush(squeue, Entry(t, "recovery"))
    /\ spushed' = spushed + 1
    /\ UNCHANGED <<brokerVars, handlerVars, workerVars, recoveryVars, envVars,
                   cleanupVars, restartVars, spopped, stale, rextra, pool, gatherVars, procVars, judgeVars>>

\* _run_async_loop: redis.blpop(submission queue) returns the head of the list
WorkerPop(w) ==
    /\ squeue # <<>>
    /\ spopped' = Append(spopped, Blpop(squeue)[1])
    /\ squeue' = Blpop(squeue)[2]
    /\ UNCHANGED <<brokerVars, handlerVars, workerVars, recoveryVars, envVars,
                   cleanupVars, restartVars, spushed, stale, rextra, pool, gatherVars, procVars, judgeVars>>

FifoNext ==
    \/ \E t \in Tasks : SubmitRpush(t)
    \/ \E t \in Tasks : RequeueRpush(t)
    \/ \E w \in Workers : WorkerPop(w)

FifoSpec == Init /\ [][FifoNext]_vars

\* ------------------------------------------------------------- fairness
\* The handler is a coroutine of the HTTP server's event loop, each worker a
\* process with its own event loop, the monitor and the recovery loops are
\* supervisor threads: each keeps taking its steps.
FairSpec ==
    /\ Spec
    /\ \A t \in Tasks : WF_vars(create_judge_task(t))
    /\ \A w \in Workers : WF_vars(JudgeWorker(w))
    /\ WF_vars(MonitorWorkers)
    /\ WF_vars(recover_lost_tasks)

\* ---------------------------------------------------------------- claims
TimeoutKinds == {"still_pending", "not_found", "other_status"}

\* C1 (as stated): every handler call that has enqueued its submission returns
\* either the Verdict it popped from results:<task_id> or, after the timeout, a
\* SYSTEM_ERROR Verdict with a pending / not-found / other-status diagnostic.
C1_PoppedOrTimeout ==
    \A t \in Tasks :
        (henq[t] /\ hpc[t] = "done") => hret[t].kind \in {"popped"} \cup TimeoutKinds

\* C1 (amended): every handler call that has enqueued its submission eventually
\* returns a Verdict: the popped one, a SYSTEM_ERROR Verdict with one of the three
\* timeout diagnostics, or a SYSTEM_ERROR Verdict carrying the text of an exception
\* raised by a Redis call of the handler; no waiter blocks forever.
C1_WaiterReturns ==
    /\ \A t \in Tasks : henq[t] ~> (hpc[t] = "done")
    /\ [](\A t \in Tasks :
            (henq[t] /\ hpc[t] = "done") =>
                /\ hret[t].kind \in {"popped", "exception"} \cup TimeoutKinds
                /\ hret[t].task_id = t
                /\ hret[t].kind # "popped" => hret[t].status = SYSTEM_ERROR)

C1_Witness ==
    \E t \in Tasks : henq[t] /\ hpc[t] = "done" /\ hret[t].kind = "exception"

\* C2: each waiter receives exactly one Verdict: a handler call returns once, also
\* when its submission was judged more than once, and pops at most one entry of
\* results:<task_id>.
C2_ExactlyOneVerdict ==
    \A t \in Tasks :
        /\ hreturns[t] = IF hpc[t] = "done" THEN 1 ELSE 0
        /\ hconsumed[t] <= 1
        /\ hret[t].kind = "popped" => hconsumed[t] = 1

\* the handler has returned the Verdict it popped while a second Verdict of the
\* requeued submission lies on results:<task_id>
C2_Witness ==
    \E t \in Tasks :
        /\ hpc[t] = "done" /\ hret[t].kind = "popped"
        /\ requeues > 0 /\ results[t] # <<>>

\* C3: in one run of _process_task at most one entry is pushed to
\* results:<task_id>, whichever step of the run raises.
C3_OnePushPerRun == \A w \in Workers : wpushes[w] <= 1

\* C4: results:<task_id> never holds more than one Verdict and never has more than
\* one producer (stated for the runs in which no Redis call raises and no worker
\* dies, where it already fails).
C4_SingleVerdict ==
    faults = 0 =>
        \A t \in Tasks :
            /\ Len(results[t]) <= 1
            /\ Cardinality({results[t][i].by : i \in DOMAIN results[t]}) <= 1

\* C5: when judging raises inside _process_task the worker is in the except
\* clause holding the submission, and the step by which it leaves the clause
\* without a further fault appends a SYSTEM_ERROR Verdict with the submission's
\* task_id to results:<task_id>.
C5_ErrorVerdictPushed ==
    [][\A w \in Workers :
         /\ (wpc[w] = "judge" /\ wpc'[w] = "except") => wcur'[w] = wcur[w]
         /\ (wpc[w] = "except" /\ wpc'[w] # "except" /\ faults' = faults) =>
                /\ wcur[w] \in Tasks
                /\ results'[wcur[w]] =
                       Append(results[wcur[w]],
                              [status |-> SYSTEM_ERROR, task_id |-> wcur[w], by |-> w])
      ]_vars

\* judging raised (no Redis call has raised, no worker has died) and the
\* SYSTEM_ERROR Verdict is on the list while the handler waits
C5_Witness ==
    \E t \in Tasks :
        /\ faults = 0 /\ hpc[t] = "blpop"
        /\ \E i \in DOMAIN results[t] : results[t][i].status = SYSTEM_ERROR

\* C6: a task whose worker died between the RUNNING transition and the push of
\* the Verdict is requeued by Recovery, so that a Verdict is eventually pushed to
\* results:<task_id>.
C6_OrphanGetsVerdict ==
    \A t \in Tasks :
        (t \in orphan /\ hpc[t] = "blpop" /\ results[t] = <<>>) ~> (results[t] # <<>>)

\* C7: submitted >= fetched in every reachable state.
C7_SubmittedGeFetched == submitted >= fetched

\* C8: fetched >= processed in every reachable state, and neither counter ever
\* decreases.
C8_FetchedGeProcessed ==
    /\ [](fetched >= processed)
    /\ [][fetched' >= fetched /\ processed' >= processed]_vars

C8_Witness == processed >= 1 /\ fetched > processed

\* submissions empty, no worker holding a popped submission, no handler enqueuing
Quiescent ==
    /\ submissions = <<>>
    /\ \A w \in Workers : wcur[w] = NoTask
    /\ \A t \in Tasks : hpc[t] \notin {"rpush", "incr"}
    /\ rcur = NoTask

\* C9: at quiescence submitted = fetched = processed (stated for the runs in which
\* no Redis call raises and no worker dies, where it already fails).
C9_EqualAtQuiescence ==
    (faults = 0 /\ Quiescent) => (submitted = fetched /\ fetched = processed)

\* the severity order of the statuses, as the specification gives it
Severity(status) ==
    CASE status = SYSTEM_ERROR -> 1
      [] status = COMPILATION_ERROR -> 2
      [] status = RUNTIME_ERROR -> 3
      [] status = TIME_LIMIT_EXCEEDED -> 4
      [] status = MEMORY_LIMIT_EXCEEDED -> 5
      [] status = WRONG_ANSWER -> 6
      [] status = ACCEPTED -> 7

Range(seq) == {seq[i] : i \in DOMAIN seq}

\* the least severe-numbered status of a set (ACCEPTED for no case at all)
MinSeverity(statuses) ==
    IF statuses = {} THEN ACCEPTED
    ELSE CHOOSE s \in statuses : \A u \in statuses : Severity(s) <= Severity(u)

Aggregated == verdict.status # "none" /\ code_safe /\ ~compile_error

\* the failing test cases, by index
FailingCases == {i \in DOMAIN case_status : case_status[i] # ACCEPTED}

C12_ExecutionModeAllCases ==
    (Aggregated /\ mode = EXECUTION) =>
        LET tcr == verdict.test_case_results IN
        /\ Len(tcr) = ncases
        /\ \A i \in DOMAIN tcr :
              /\ tcr[i].case = i
              /\ tcr[i].status = case_status[i]
              /\ tcr[i].actual_output = stdout_len

\* C13: when every test case exits with code zero and its output equals the
\* expected output, the Verdict is ACCEPTED with metadata.passed =
\* metadata.total = the number of test cases.
C13_AcceptedWithMetadata ==
    (Aggregated /\ \A i \in DOMAIN cases : cases[i].status = ACCEPTED /\ cases[i].equal) =>
        /\ verdict.status = ACCEPTED
        /\ verdict.metadata.present
        /\ verdict.metadata.passed = ncases
        /\ verdict.metadata.total = ncases

\* C20: when security_check is set and the static screen rejects the code, the
\* pipeline returns SYSTEM_ERROR with the message "Code contains potentially
\* unsafe operations", and no working directory is created, no compilation is
\* run and no test case is executed.
C20_UnsafeRejectedFirst ==
    (security_check /\ ~code_safe) =>
        /\ jpc \in {"idle", "screen", "done"}
        /\ working_dir = "none" /\ ~compiled /\ cases = <<>>
        /\ jpc = "done" =>
              /\ verdict.status = SYSTEM_ERROR
              /\ verdict.error_message = "Code contains potentially unsafe operations"

\* a rejected C++ submission with test cases has been answered
C20_Witness ==
    /\ security_check /\ ~code_safe /\ jpc = "done"
    /\ language = CPP /\ ncases > 0


\* the child finished before the wait for it timed out
ChildCompleted == epc = "done" /\ echild.runtime <= ewatchdog

\* C18: the status of a completed child is the function of its exit: signal
\* SIGSEGV or exit code 139 gives MEMORY_LIMIT_EXCEEDED, signal SIGKILL or exit
\* code 137 gives TIME_LIMIT_EXCEEDED, exit code 1 with "AssertionError" in
\* stderr gives WRONG_ANSWER, any other non-zero exit gives RUNTIME_ERROR, exit
\* code zero gives ACCEPTED.
C18_ExitClassification ==
    ChildCompleted =>
        eresult.status =
            CASE echild.returncode \in {-11, 139} -> MEMORY_LIMIT_EXCEEDED
              [] echild.returncode \in {-9, 137} -> TIME_LIMIT_EXCEEDED
              [] echild.returncode = 1 /\ echild.assertion -> WRONG_ANSWER
              [] echild.returncode = 0 -> ACCEPTED
              [] OTHER -> RUNTIME_ERROR

\* C19: when the child is still running one second after its time limit, the
\* executor returns TIME_LIMIT_EXCEEDED with execution_time equal to the time
\* limit and no process of the child's tree is alive at the return.
C19_TimeoutKillsTree ==
    (epc = "done" /\ ewatchdog > 0 /\ echild.runtime > etime_limit + 1000) =>
        /\ eresult.status = TIME_LIMIT_EXCEEDED
        /\ eresult.execution_time = etime_limit
        /\ ealive = {}

Queued(t) == \E i \in DOMAIN submissions : submissions[i] = t

\* C14: for every task id, in every state between the handler's creation of
\* the task hash and the handler's return, at least one of the three exists:
\* its entry on the submissions list, its task hash, its results list.
C14_SomeKeyExists ==
    \A t \in Tasks :
        hpc[t] \notin {"start", "done"} =>
            Queued(t) \/ tstatus[t] # ABSENT \/ results[t] # <<>>

\* a cleanup pass is under way while the handler waits and the task hash is the
\* only key of the task
C14_Witness ==
    \E t \in Tasks :
        /\ hpc[t] = "blpop" /\ cpc = "orphans"
        /\ ~Queued(t) /\ results[t] = <<>> /\ tstatus[t] = RUNNING

\* C15: a worker that was signalled while judging and cancelled the task after
\* task_completion_timeout has pushed a Verdict for that task (the SYSTEM_ERROR
\* of its cleanup) by the time its process has ended.
C15_CancelledTaskGetsVerdict ==
    \A w \in Workers :
        (wpc[w] = "dead" /\ wcancel[w].at = "judge") => wpushes[w] >= 1

\* the workers whose process is alive
Alive == {w \in Workers : wpc[w] # "dead"}

\* C17: the operator's POST /health/restart starts a rolling restart (the
\* request is answered "restarting" with the restart flag set), and while the
\* flag is set at least half of the pool is alive.
C17_RollingRestart ==
    /\ rspc = "done" => restart_ret = "restarting"
    /\ restart_flag => 2 * Cardinality(Alive) >= NumWorkers

\* C21: the submissions list is FIFO: the entries are handed to the workers in
\* the order in which handlers and Recovery pushed them, and what is still
\* queued are the later pushes, in push order.
C21_Fifo ==
    /\ \A i \in DOMAIN spopped : spopped[i].seq = i
    /\ \A i \in DOMAIN squeue : squeue[i].seq = Len(spopped) + i

\* two entries have been handed out while two more, of both producers, wait
C21_Witness ==
    /\ Len(spopped) >= 2 /\ Len(squeue) >= 2
    /\ \E i, j \in DOMAIN squeue : squeue[i].by = "handler" /\ squeue[j].by = "recovery"

\* C22: Recovery pushes a task onto the submissions list only when its hash has
\* been PENDING for more than 5 s.
C22_RequeueOnlyAfter5s ==
    [][(rpc = "rpush" /\ rpc' = "scan" /\ rdata /\ faults' = faults) =>
          stale[rcur]]_vars

\* C23: when Recovery has requeued the PENDING task twice (three copies of the
\* payload have been popped: the handler's and two requeued ones), its waiter
\* still consumes at most one Verdict, results:<task_id> never holds a second
\* one, and nothing is left on it once the waiter has returned the popped
\* Verdict (stated for the runs in which no Redis call raises and no worker dies).
C23_RequeuedTwiceOneVerdict ==
    \A t \in Tasks :
        (faults = 0 /\ requeues >= 2 /\ fetched >= 3) =>
            /\ hconsumed[t] <= 1
            /\ Len(results[t]) <= 1
            /\ (hpc[t] = "done" /\ hret[t].kind = "popped") => results[t] = <<>>

\* the workers that have performed the RUNNING transition for t in the run of
\* _process_task they are in
RunningWriters(t) ==
    {w \in Workers : wcur[w] = t /\ wpc[w] \in {"judge", "rpush", "incr_processed"}}

\* C24: for every task id no second worker performs the RUNNING transition:
\* never are two workers past the hset of the same task (stated for the runs in
\* which no Redis call raises and no worker dies).
C24_OneRunningWriter ==
    faults = 0 => \A t \in Tasks : Cardinality(RunningWriters(t)) <= 1

\* C25: when Recovery finds a task eligible for requeue whose hash has no data
\* field, its push appends a SYSTEM_ERROR Verdict with that task id to
\* results:<task_id> and leaves the submissions list alone.
C25_NoDataErrorVerdict ==
    [][(rpc = "rpush" /\ rpc' = "scan" /\ ~rdata /\ faults' = faults) =>
          /\ results' = [results EXCEPT
                           ![rcur] = Append(@, [status |-> SYSTEM_ERROR,
                                                task_id |-> rcur, by |-> Recovery])]
          /\ submissions' = submissions]_vars

\* Recovery's SYSTEM_ERROR Verdict is on the results list of the task
C25_Witness ==
    \E t \in Tasks : \E i \in DOMAIN results[t] :
        results[t][i] = [status |-> SYSTEM_ERROR, task_id |-> t, by |-> Recovery]

\* C26: the pop of a worker whose shutdown flag is set has a timeout of at most
\* 1 s, so that the flag is looked at again also while the submissions list
\* stays empty: such a worker is never in the pop that blocks without a timeout.
C26_ShutdownPopTimesOut ==
    \A w \in Workers : wshut[w] # "no" => wpc[w] # PopState(NoTimeout)

\* C27: on a hit the handler deletes the task hash and the results list in one
\* step and returns the popped Verdict in that step; a step of the delete that
\* fails deletes neither.
C27_DeleteTogether ==
    [][\A t \in Tasks :
          (hpc[t] = "delete" /\ hpc'[t] = "done") =>
              IF hret'[t].kind = "popped"
              THEN /\ results'[t] = <<>>
                   /\ tstatus'[t] = ABSENT
                   /\ ~tdata'[t]
              ELSE /\ results'[t] = results[t]
                   /\ tstatus'[t] = tstatus[t]
                   /\ tdata'[t] = tdata[t]]_vars

\* the handler has returned a popped Verdict and neither key exists
C27_Witness ==
    \E t \in Tasks :
        /\ hpc[t] = "done"
        /\ hret[t].kind = "popped"
        /\ tstatus[t] = ABSENT
        /\ results[t] = <<>>

\* C28: when a cleanup pass that no other process interleaved with ends, no
\* task hash with a submitted_at older than RESULT_EXPIRY_TIME exists and no
\* results list exists whose task hash does not, the lists of the hashes the
\* pass deleted among them.
C28_QuietPassLeavesNothing ==
    [][(cpc # "sleep" /\ cpc' = "sleep") =>
          \A t \in Tasks :
              /\ ~(tstatus'[t] # ABSENT /\ tdata'[t] /\ aged'[t])
              /\ ~(results'[t] # <<>> /\ tstatus'[t] = ABSENT)]_vars

\* a pass has ended and has removed a Verdict nobody consumed: the handler
\* returned without a pop, a worker pushed and counted its Verdict, and neither
\* the expired hash nor the list exists
C28_Witness ==
    \E t \in Tasks :
        /\ cpc = "sleep"
        /\ hpc[t] = "done"
        /\ hconsumed[t] = 0
        /\ processed > 0
        /\ aged[t]
        /\ tstatus[t] = ABSENT
        /\ results[t] = <<>>

\* C29: through any sequence of worker deaths and monitor passes the pool has
\* exactly max_workers slots, every slot holds the worker id it was created
\* with, the ids are pairwise distinct, and a pass leaves a newly started worker
\* in every slot it found dead.
C29_PoolKeepsSlotsAndIds ==
    /\ [](/\ Len(pool) = NumWorkers
          /\ \A i \in DOMAIN pool : pool[i] = i
          /\ \A i, j \in DOMAIN pool : pool[i] = pool[j] => i = j)
    /\ [][(\E w \in Workers : wpc[w] = "dead" /\ wpc'[w] # "dead") =>
             \A i \in DOMAIN pool :
                 wpc[pool[i]] = "dead" => wpc'[pool'[i]] = "blpop"]_vars

\* a worker died holding a task it had marked RUNNING and a pass has run since:
\* every slot holds a live worker
C29_Witness ==
    /\ orphan # {}
    /\ \A i \in DOMAIN pool : wpc[pool[i]] # "dead"

\* over the executions' results taken in input order: the overall status
RECURSIVE StatusInInputOrder(_, _)
StatusInInputOrder(rs, k) ==
    IF k = 0 THEN ACCEPTED
    ELSE UpdateOverall(StatusInInputOrder(rs, k - 1), Compared(rs[k]))

\* over the executions' results taken in input order: the recorded failing cases
RECURSIVE RecordedInInputOrder(_, _)
RecordedInInputOrder(rs, k) ==
    IF k = 0 THEN <<>>
    ELSE RecordCase(RecordedInInputOrder(rs, k - 1), k, Compared(rs[k]),
                    truncate_output(stdout_len))

\* the number of test cases whose execution was accepted with the expected output
PassedOf(rs) == Cardinality({k \in DOMAIN rs : Compared(rs[k]) = ACCEPTED})

\* C30: whatever the order in which the concurrent executions finished, the
\* Verdict is the one obtained from the executions' results taken by input
\* position: its status, its passed count, and the content and order of its
\* test_case_results.
C30_VerdictIgnoresCompletionOrder ==
    (jpc = "done" /\ outcome # <<>>) =>
        /\ verdict.status = StatusInInputOrder(outcome, ncases)
        /\ verdict.test_case_results = RecordedInInputOrder(outcome, ncases)
        /\ passed_cases = PassedOf(outcome)

\* the last test case finished first, the executions returned different
\* statuses, and the Verdict has been assembled with a failing case recorded
C30_Witness ==
    /\ jpc = "done"
    /\ ncases = MaxGather
    /\ gorder[1] = ncases
    /\ Compared(outcome[1]) # Compared(outcome[ncases])
    /\ verdict.test_case_results # <<>>

\* the only copy of the payload of t was popped and dropped by a worker whose
\* loop raised before _process_task: the handler pushed it, Recovery pushed no
\* copy, it is not on the list, no worker holds it, no pop was counted, and a
\* worker is in the sleep of its except clause
Dropped(t) ==
    /\ henq[t]
    /\ requeues = 0
    /\ fetched = 0
    /\ ~Queued(t)
    /\ \A w \in Workers : wcur[w] # t
    /\ \E w \in Workers : wpc[w] = "sleep"

C32_DirectKillAlways ==
    mctx.by = "call" =>
        /\ mctx.direct = "attempted" => mctx.group # "none"
        /\ mctx.group # "none" /\ mpc # "direct" => mctx.direct = "attempted"
        /\ mpc = "returned" => mctx.pid \notin DOMAIN process_groups

\* the group signal was refused, the call has returned, and the process and its
\* descendants are gone
C32_Witness ==
    /\ mctx.by = "call"
    /\ mpc = "returned"
    /\ mctx.group = "PermissionError"
    /\ mctx.pid # Self
    /\ palive = {Self}

\* C39: the pid that judge_leetcode registers and that the memory enforcer hands
\* to cleanup_process is never the pid of the process running the judge, and
\* that process is not killed.
C39_EnforcerSparesJudge ==
    mctx.by = "enforcer" => (mctx.pid # Self /\ Self \in palive)

\* C40: when managed_process_execution has exited, the pid registered through it
\* has been passed to cleanup_process and is no longer in the map: the map holds
\* only pids of executions in progress.
C40_MapEmptyAfterExit ==
    (mctx.by = "leetcode" /\ mpc = "exited") => process_groups = <<>>

\* C33: every invocation that reaches compilation owns a working directory of
\* its own from then on, and the directory is deleted before the invocation
\* returns.
C33_OwnsWorkingDir ==
    /\ jpc \in {"compile", "execute", "aggregate"} => working_dir = "created"
    /\ (jpc = "done" /\ compiled) => working_dir = "cleaned"

\* C34: for a submission whose security_check is not set the static screen does
\* not run: the Verdict is never the SYSTEM_ERROR "Code contains potentially
\* unsafe operations", and the invocation goes on to compilation.
C34_UncheckedNeverRejected ==
    ~security_check =>
        /\ ~(verdict.status = SYSTEM_ERROR /\ verdict.error_message = UNSAFE_MESSAGE)
        /\ jpc = "done" => compiled

\* C35: once the handler has deleted the task hash and the results list on a
\* hit, no worker, Recovery pass or cleanup pass creates a task hash or a
\* results list for that task id again; stated for the behaviours in which no
\* Redis call fails and no process dies.
C35_DeletedStaysDeleted ==
    \A t \in Tasks :
        (faults = 0 /\ hpc[t] = "done" /\ hret[t].kind = "popped") =>
            /\ tstatus[t] = ABSENT
            /\ results[t] = <<>>

\* C36: a handler call whose enqueue phase failed (it returned the exception's
\* SYSTEM_ERROR without having counted the submission) leaves no PENDING task
\* hash behind, so that Recovery never requeues the submission and no Verdict
\* is produced for a waiter that has gone.
C36_FailedEnqueueLeavesNothing ==
    \A t \in Tasks :
        (hpc[t] = "done" /\ hret[t].kind = "exception" /\ submitted = 0) =>
            /\ tstatus[t] # PENDING
            /\ results[t] = <<>>

\* C37: once a worker's shutdown flag is set, that worker pops no further
\* payload from the submissions list: what is on the list stays there for
\* another worker.
C37_NoPopAfterShutdown ==
    [][\A w \in Workers :
          wshut[w] # "no" => ~(wpc[w] = "blpop" /\ wpc'[w] = "incr_fetched")]_vars

\* C38: with result_expiry_sec above max_latency_sec, no step of a cleanup pass
\* changes the task hash or the results list of a task whose waiter is still
\* blocked on results:<task_id>, and pass 2 never has such a task's results
\* list marked for deletion: a pushed Verdict stays until the handler pops it.
C38_CleanupSparesWaiter ==
    /\ [][\A t \in Tasks :
             (MAX_LATENCY < RESULT_EXPIRY_TIME /\ hpc[t] = "blpop" /\ cpc' # cpc) =>
                 /\ tstatus'[t] = tstatus[t]
                 /\ tdata'[t] = tdata[t]
                 /\ results'[t] = results[t]]_vars
    /\ [](\A t \in Tasks :
             (MAX_LATENCY < RESULT_EXPIRY_TIME /\ hpc[t] = "blpop") => t \notin ckeys)

\* pass 1 of a cleanup has run and pass 2 is about to scan while the waiter is
\* blocked and the worker's Verdict is on the results list
C38_Witness ==
    \E t \in Tasks :
        /\ hpc[t] = "blpop" /\ cpc = "orphans"
        /\ results[t] # <<>> /\ tstatus[t] # ABSENT

====
